---- MODULE Spec2Model ----
(***************************************************************************)
(* Model of src/main.rs: the sockaddr <-> IpAddr codec (ip_from_sockaddr,  *)
(* sockaddr_from_ip, get_ip, set_ip) and the single-shot main that sets    *)
(* the IPv4 address of a named interface through SIOCSIFADDR.              *)
(*                                                                         *)
(* Two groups of variables:                                                *)
(*   - the codec harness (ip_addr .. cphase) applies the two pure          *)
(*     conversion functions to inputs drawn in InitCodec;                  *)
(*   - the program (pc .. get_result) is one run of main against a kernel  *)
(*     interface table.                                                    *)
(***************************************************************************)
EXTENDS Integers, Sequences, FiniteSets, TLC

VARIABLES
    ip_addr,     \* codec harness: the IpAddr given to sockaddr_from_ip
    sock_addr,   \* codec harness: the libc::sockaddr under conversion
    sock_addr2,  \* codec harness: a second record agreeing with sock_addr on sa_data[2..5]
    enc,         \* codec harness: Result of sockaddr_from_ip(ip_addr)
    dec,         \* codec harness: Result of ip_from_sockaddr(sock_addr)
    dec2,        \* codec harness: Result of ip_from_sockaddr(sock_addr2)
    cphase,      \* codec harness: "start" | "encoded" | "decoded"
    pc,          \* main: next statement to execute
    argv,        \* main: command line, [interface |-> bytes, ip |-> dotted literal]
    args,        \* main: parsed Args {interface, ip}
    sock_fd,     \* main: RawFd returned by socket(), -1 before
    ifr,         \* main: the ifreq record
    kernel,      \* kernel interface table and the caller's privilege
    syscalls,    \* kernel operations issued by main, in order
    steps,       \* statements of main executed, in order
    log,         \* messages emitted through info!()
    exit_code,   \* process exit status, -1 while running
    error,       \* the error that ended the run
    get_result   \* result of a later get (SIOCGIFADDR + get_ip) on some interface

codec_vars == <<ip_addr, sock_addr, sock_addr2, enc, dec, dec2, cphase>>
main_vars  == <<pc, argv, args, sock_fd, ifr, kernel, syscalls, steps, log,
                exit_code, error, get_result>>
vars == <<ip_addr, sock_addr, sock_addr2, enc, dec, dec2, cphase,
          pc, argv, args, sock_fd, ifr, kernel, syscalls, steps, log,
          exit_code, error, get_result>>

----------------------------------------------------------------------------
(* Platform constants (libc, Linux).                                       *)

AF_INET == 2
AF_INET6 == 10
SaDataLen == 14
IFNAMSIZ == 16

(* Bounds of the model.                                                    *)
MaxFamily == 11      \* sa_family values 0..MaxFamily (and 65535) are tried
MaxNameLen == 17     \* interface names of 0..MaxNameLen bytes are tried

----------------------------------------------------------------------------
(* Values.                                                                 *)

\* `x as i8` for x: u8
AsI8(x) == IF x >= 128 THEN x - 256 ELSE x
\* `x as u8` for x: i8
AsU8(x) == IF x < 0 THEN x + 256 ELSE x

\* [a, b, c, d] as an array indexed 0..3
Quad(a, b, c, d) == [i \in 0..3 |-> <<a, b, c, d>>[i + 1]]

\* IpAddr::V4(Ipv4Addr::from(arr)), arr : [u8; 4] indexed 0..3
V4(arr) == [version |-> 4, parts |-> arr]
\* IpAddr::V6 with its eight 16-bit segments
V6(segs) == [version |-> 6, parts |-> segs]
NoIp == [version |-> 0, parts |-> <<>>]

\* [0i8; 14]
ZeroData == [i \in 0..(SaDataLen - 1) |-> 0]
\* mem::zeroed() sockaddr
ZeroSockaddr == [sa_family |-> 0, sa_data |-> ZeroData]

\* anyhow::Result
Ok(v) == [ok |-> TRUE, val |-> v, err |-> ""]
Err(v, m) == [ok |-> FALSE, val |-> v, err |-> m]
Pending == [ok |-> FALSE, val |-> NoIp, err |-> "pending"]

ErrIPv6 == "IPv6 is not supported at the time"
ErrUnknownFamily == "Received unknown sa_family"

----------------------------------------------------------------------------
(* The codec.                                                              *)

\* for i in 0..arr.len() { arr[i] = sock_addr.sa_data[i + 2] as u8; }
RECURSIVE ReadOctets(_, _, _)
ReadOctets(arr, sa_data, i) ==
    IF i >= 4 THEN arr
    ELSE ReadOctets([arr EXCEPT ![i] = AsU8(sa_data[i + 2])], sa_data, i + 1)

\* the same loop reading one byte further on for the last octet
RECURSIVE ReadOctetsOver(_, _, _)
ReadOctetsOver(arr, sa_data, i) ==
    IF i >= 4 THEN arr
    ELSE ReadOctetsOver(
            [arr EXCEPT ![i] = AsU8(sa_data[IF i = 3 THEN i + 3 ELSE i + 2])],
            sa_data, i + 1)

\* the same loop without the `as u8` cast
RECURSIVE ReadOctetsSigned(_, _, _)
ReadOctetsSigned(arr, sa_data, i) ==
    IF i >= 4 THEN arr
    ELSE ReadOctetsSigned([arr EXCEPT ![i] = sa_data[i + 2]], sa_data, i + 1)

\* ip_from_sockaddr keeping the bytes signed
ip_from_sockaddr_signed(sa) ==
    IF sa.sa_family = AF_INET
    THEN Ok(V4(ReadOctetsSigned(Quad(0, 0, 0, 0), sa.sa_data, 0)))
    ELSE IF sa.sa_family = AF_INET6
    THEN Err(NoIp, ErrIPv6)
    ELSE Err(NoIp, ErrUnknownFamily)

\* ip_from_sockaddr treating every family but AF_INET6 as IPv4
ip_from_sockaddr_default_v4(sa) ==
    IF sa.sa_family = AF_INET6
    THEN Err(NoIp, ErrIPv6)
    ELSE Ok(V4(ReadOctets(Quad(0, 0, 0, 0), sa.sa_data, 0)))

\* ip_from_sockaddr taking its last octet from sa_data[6]
ip_from_sockaddr_overread(sa) ==
    IF sa.sa_family = AF_INET
    THEN Ok(V4(ReadOctetsOver(Quad(0, 0, 0, 0), sa.sa_data, 0)))
    ELSE IF sa.sa_family = AF_INET6
    THEN Err(NoIp, ErrIPv6)
    ELSE Err(NoIp, ErrUnknownFamily)

\* pub fn ip_from_sockaddr(sock_addr: &libc::sockaddr) -> Result<IpAddr>
ip_from_sockaddr(sa) ==
    IF sa.sa_family = AF_INET
    THEN Ok(V4(ReadOctets(Quad(0, 0, 0, 0), sa.sa_data, 0)))
    ELSE IF sa.sa_family = AF_INET6
    THEN Err(NoIp, ErrIPv6)
    ELSE Err(NoIp, ErrUnknownFamily)

\* for i in 0..data.len() { sa_data[i + 2] = data[i] as i8; }
RECURSIVE WriteOctets(_, _, _)
WriteOctets(sa_data, data, i) ==
    IF i >= 4 THEN sa_data
    ELSE WriteOctets([sa_data EXCEPT ![i + 2] = AsI8(data[i])], data, i + 1)

\* the same loop writing at sa_data[i] (no room left for the port)
RECURSIVE WriteOctetsAtZero(_, _, _)
WriteOctetsAtZero(sa_data, data, i) ==
    IF i >= 4 THEN sa_data
    ELSE WriteOctetsAtZero([sa_data EXCEPT ![i] = AsI8(data[i])], data, i + 1)

\* sockaddr_from_ip writing the octets at offsets 0..3
sockaddr_from_ip_at_zero(ip) ==
    IF ip.version = 4
    THEN Ok([sa_family |-> AF_INET,
             sa_data |-> WriteOctetsAtZero(ZeroData, ip.parts, 0)])
    ELSE Err(ZeroSockaddr, ErrIPv6)

\* sockaddr_from_ip starting from a data area that is not zero-filled
sockaddr_from_ip_dirty(ip) ==
    IF ip.version = 4
    THEN Ok([sa_family |-> AF_INET,
             sa_data |-> WriteOctets([ZeroData EXCEPT ![6] = 1], ip.parts, 0)])
    ELSE Err(ZeroSockaddr, ErrIPv6)

\* sockaddr_from_ip emitting an AF_INET6 record for an IPv6 address
sockaddr_from_ip_accepts_v6(ip) ==
    IF ip.version = 4
    THEN Ok([sa_family |-> AF_INET,
             sa_data |-> WriteOctets(ZeroData, ip.parts, 0)])
    ELSE Ok([sa_family |-> AF_INET6, sa_data |-> ZeroData])

\* pub fn sockaddr_from_ip(ip_addr: &IpAddr) -> Result<libc::sockaddr>
sockaddr_from_ip(ip) ==
    IF ip.version = 4
    THEN Ok([sa_family |-> AF_INET,
             sa_data |-> WriteOctets(ZeroData, ip.parts, 0)])
    ELSE Err(ZeroSockaddr, ErrIPv6)

----------------------------------------------------------------------------
(* Inputs of the codec harness.                                            *)

EdgeOctets == {0, 127, 128, 255}
\* Ipv4 octet arrays: every octet position takes every value 0..255 (the other
\* positions zero), and every combination of the edge values.
V4Quads ==
    [0..3 -> EdgeOctets]
    \cup {[i \in 0..3 |-> IF i = p THEN v ELSE 0] : p \in 0..3, v \in 0..255}
    \cup {Quad(10, 0, 0, 1), Quad(192, 168, 1, 10)}

V6Inputs ==
    { V6([i \in 0..7 |-> 0]),
      V6([i \in 0..7 |-> IF i = 7 THEN 1 ELSE 0]),
      V6([i \in 0..7 |-> 65535]),
      V6([i \in 0..7 |-> IF i = 5 THEN 65535 ELSE IF i = 6 THEN 49320 ELSE
                         IF i = 7 THEN 266 ELSE 0]) }

IpInputs == {V4(q) : q \in V4Quads} \cup V6Inputs

Families == (0..MaxFamily) \cup {65535}

\* sa_data with q (already i8) at offsets 2..5, lo at 0..1 and hi at 6..13
DataOf(q, lo, hi) ==
    [j \in 0..(SaDataLen - 1) |->
        IF j \in 2..5 THEN q[j - 2] ELSE IF j < 2 THEN lo ELSE hi]

I8Quads ==
    {[i \in 0..3 |-> IF i = p THEN v ELSE 0] : p \in 0..3, v \in -128..127}
    \cup {[i \in 0..3 |-> AsI8(q[i])] : q \in [0..3 -> EdgeOctets]}

SmallQuads == {Quad(0, 0, 0, 0), Quad(-1, -1, -1, -1), Quad(1, 2, 3, 4),
               Quad(-64, -88, 1, 10)}

SaInputs ==
    {[sa_family |-> AF_INET, sa_data |-> DataOf(q, lo, 0)] :
        q \in I8Quads, lo \in {0, -1}}
    \cup {[sa_family |-> f, sa_data |-> DataOf(q, lo, hi)] :
        f \in Families, q \in SmallQuads, lo \in {0, 80}, hi \in {0, -1}}

\* offsets of sa_data outside the four address bytes
OtherOffsets == (0..(SaDataLen - 1)) \ (2..5)

----------------------------------------------------------------------------
(* The codec harness: apply the conversions to the drawn inputs.           *)

MainIdle ==
    /\ pc = "idle"
    /\ argv = [interface |-> <<>>, ip |-> <<>>]
    /\ args = [interface |-> <<>>, ip |-> Quad(0, 0, 0, 0)]
    /\ sock_fd = -1
    /\ ifr = [ifr_name |-> <<>>, ifr_addr |-> ZeroSockaddr]
    /\ kernel = [cap_net_admin |-> FALSE, ifaces |-> <<>>]
    /\ syscalls = <<>>
    /\ steps = <<>>
    /\ log = <<>>
    /\ exit_code = -1
    /\ error = [step |-> "", msg |-> ""]
    /\ get_result = [name |-> <<>>, res |-> Pending]

InitCodec ==
    /\ \/ ip_addr \in IpInputs /\ sock_addr = ZeroSockaddr
       \/ ip_addr = NoIp /\ sock_addr \in SaInputs
    /\ sock_addr2 = sock_addr
    /\ enc = Err(ZeroSockaddr, "pending")
    /\ dec = Pending
    /\ dec2 = Pending
    /\ cphase = "start"
    /\ MainIdle

\* let sa = sockaddr_from_ip(&ip_addr): the record produced replaces sock_addr
Encode ==
    /\ cphase = "start"
    /\ ip_addr # NoIp
    /\ enc' = sockaddr_from_ip(ip_addr)
    /\ sock_addr' = IF enc'.ok THEN enc'.val ELSE sock_addr
    /\ sock_addr2' = sock_addr'
    /\ cphase' = "encoded"
    /\ UNCHANGED <<ip_addr, dec, dec2>>
    /\ UNCHANGED main_vars

\* a record available for decoding: a drawn one, or one just encoded
HaveRecord ==
    \/ cphase = "start" /\ ip_addr = NoIp
    \/ cphase = "encoded" /\ enc.ok

\* the second record is given another byte at one offset outside sa_data[2..5]
Scribble ==
    /\ HaveRecord
    /\ sock_addr2 = sock_addr
    /\ \E j \in OtherOffsets, v \in {-1, 127} :
          /\ sock_addr.sa_data[j] # v
          /\ sock_addr2' = [sock_addr EXCEPT !.sa_data[j] = v]
    /\ UNCHANGED <<ip_addr, sock_addr, enc, dec, dec2, cphase>>
    /\ UNCHANGED main_vars

\* ip_from_sockaddr applied to both records
Decode ==
    /\ HaveRecord
    /\ dec' = ip_from_sockaddr(sock_addr)
    /\ dec2' = ip_from_sockaddr(sock_addr2)
    /\ cphase' = "decoded"
    /\ UNCHANGED <<ip_addr, sock_addr, sock_addr2, enc>>
    /\ UNCHANGED main_vars

NextCodec == Encode \/ Scribble \/ Decode

SpecCodec == InitCodec /\ [][NextCodec]_vars

----------------------------------------------------------------------------
(* The program: one run of main.                                           *)

NoError == [step |-> "", msg |-> ""]
NoGet == [name |-> <<>>, res |-> Pending]
NoIfreq == [ifr_name |-> <<>>, ifr_addr |-> ZeroSockaddr]

\* "eth0", "lo", "doesnotexist0" as bytes
Eth0 == <<101, 116, 104, 48>>
Lo == <<108, 111>>
DoesNotExist0 == <<100, 111, 101, 115, 110, 111, 116, 101, 120, 105, 115, 116, 48>>
\* a name of n bytes, "xxx...x"
XName(n) == [i \in 1..n |-> 120]

Names == {Eth0, Lo, DoesNotExist0} \cup {XName(n) : n \in 0..MaxNameLen}

\* the <ipv4-address> argument as its dot-separated decimal fields
IpLiterals ==
    { <<192, 168, 1, 10>>, <<10, 0, 0, 1>>, <<255, 255, 255, 255>>, <<0, 0, 0, 0>>,
      <<200, 129, 128, 127>>, <<224, 0, 0, 1>>, <<0, 1, 2, 3>>,
      <<256, 1, 1, 1>>, <<1, 2, 3>>, <<1, 2, 3, 4, 5>>, <<>> }

\* Args.ip : Ipv4Addr, parsed from the argument by Args::from_args()
ParseIpv4(lit) ==
    IF Len(lit) = 4 /\ \A i \in 1..4 : lit[i] \in 0..255
    THEN Ok([i \in 0..3 |-> lit[i + 1]])
    ELSE Err(Quad(0, 0, 0, 0), "Invalid value for '<ip>'")

\* an interface without an IPv4 address
NoAddr == [family |-> 0, addr |-> Quad(0, 0, 0, 0)]

\* the interfaces the kernel knows, before the run
InitIfaces ==
    (Eth0 :> [family |-> AF_INET, addr |-> Quad(10, 0, 0, 5)])
    @@ (Lo :> [family |-> AF_INET, addr |-> Quad(127, 0, 0, 1)])
    @@ (XName(IFNAMSIZ - 1) :> NoAddr)

\* ifreq::from_name accepting a name of exactly IFNAMSIZ bytes
from_name_off_by_one(name) ==
    IF Len(name) > IFNAMSIZ
    THEN Err(NoIfreq, "InvalidInput")
    ELSE Ok([ifr_name |-> [j \in 0..(IFNAMSIZ - 1) |->
                              IF j < Len(name) THEN name[j + 1] ELSE 0],
             ifr_addr |-> ZeroSockaddr])

\* ifreq::from_name(name): the name and its terminating NUL must fit ifr_name
from_name(name) ==
    IF Len(name) + 1 > IFNAMSIZ
    THEN Err(NoIfreq, "InvalidInput")
    ELSE Ok([ifr_name |-> [j \in 0..(IFNAMSIZ - 1) |->
                              IF j < Len(name) THEN name[j + 1] ELSE 0],
             ifr_addr |-> ZeroSockaddr])

\* the interface name the kernel reads from ifr_name: the bytes before the first NUL
NameOf(ifr_name) ==
    LET n == CHOOSE k \in 0..(IFNAMSIZ - 1) :
                 /\ ifr_name[k] = 0
                 /\ \A j \in 0..(k - 1) : ifr_name[j] # 0
    IN [i \in 1..n |-> ifr_name[i - 1]]

\* pub fn set_ip(ifr: &mut ifreq, ip_addr: &IpAddr) -> Result<()>
set_ip(r, ip) ==
    LET sa == sockaddr_from_ip(ip)
    IN IF sa.ok THEN Ok([r EXCEPT !.ifr_addr = sa.val]) ELSE Err(r, sa.err)

\* pub fn get_ip(ifr: &ifreq) -> Result<IpAddr>
get_ip(r) == ip_from_sockaddr(r.ifr_addr)

\* the kernel's inet_abc_len(addr): the classful prefix length of the address,
\* -1 for a class D (multicast) address
inet_abc_len(addr) ==
    IF addr = Quad(0, 0, 0, 0) \/ addr = Quad(255, 255, 255, 255) THEN 0
    ELSE IF addr[0] < 128 THEN 8
    ELSE IF addr[0] < 192 THEN 16
    ELSE IF addr[0] < 224 THEN 24
    ELSE IF addr[0] >= 240 THEN 32
    ELSE -1

\* ioctl(fd, SIOCSIFADDR, &ifr): [res, ifaces] after the request. The kernel
\* reads ifr_addr as a sockaddr_in (address at sa_data[2..5]); it refuses a
\* multicast address, and the address 0.0.0.0 removes the interface's address.
set_interface_ip(k, r) ==
    LET addr == [i \in 0..3 |-> AsU8(r.ifr_addr.sa_data[i + 2])]
    IN  IF ~k.cap_net_admin
        THEN [res |-> Err(r, "EPERM"), ifaces |-> k.ifaces]
        ELSE IF r.ifr_addr.sa_family # AF_INET
        THEN [res |-> Err(r, "EINVAL"), ifaces |-> k.ifaces]
        ELSE IF NameOf(r.ifr_name) \notin DOMAIN k.ifaces
        THEN [res |-> Err(r, "ENODEV"), ifaces |-> k.ifaces]
        ELSE IF inet_abc_len(addr) < 0
        THEN [res |-> Err(r, "EINVAL"), ifaces |-> k.ifaces]
        ELSE [res |-> Ok(r),
              ifaces |-> [k.ifaces EXCEPT ![NameOf(r.ifr_name)] =
                            IF addr = Quad(0, 0, 0, 0)
                            THEN NoAddr
                            ELSE [family |-> AF_INET, addr |-> addr]]]

\* ioctl(fd, SIOCGIFADDR, &mut ifr): the record as the kernel fills it
get_interface_ip(k, r) ==
    IF NameOf(r.ifr_name) \notin DOMAIN k.ifaces
    THEN Err(r, "ENODEV")
    ELSE IF k.ifaces[NameOf(r.ifr_name)] = NoAddr
    THEN Err(r, "EADDRNOTAVAIL")
    ELSE Ok([r EXCEPT !.ifr_addr =
                [sa_family |-> k.ifaces[NameOf(r.ifr_name)].family,
                 sa_data |-> [j \in 0..(SaDataLen - 1) |->
                     IF j \in 2..5
                     THEN AsI8(k.ifaces[NameOf(r.ifr_name)].addr[j - 2])
                     ELSE 0]]])

CodecIdle ==
    /\ ip_addr = NoIp
    /\ sock_addr = ZeroSockaddr
    /\ sock_addr2 = ZeroSockaddr
    /\ enc = Err(ZeroSockaddr, "pending")
    /\ dec = Pending
    /\ dec2 = Pending
    /\ cphase = "idle"

Init ==
    /\ pc = "from_args"
    /\ argv \in [interface : Names, ip : IpLiterals]
    /\ args = [interface |-> <<>>, ip |-> Quad(0, 0, 0, 0)]
    /\ sock_fd = -1
    /\ ifr = NoIfreq
    /\ kernel \in [cap_net_admin : BOOLEAN, ifaces : {InitIfaces}]
    /\ syscalls = <<>>
    /\ steps = <<>>
    /\ log = <<>>
    /\ exit_code = -1
    /\ error = NoError
    /\ get_result = NoGet
    /\ CodecIdle

\* `?` on an Err in main: the error is returned and the process exits with status 1
Fail(step, msg) ==
    /\ error' = [step |-> step, msg |-> msg]
    /\ exit_code' = 1
    /\ pc' = "exit"

\* SimpleLogger::new().init()?; let args = Args::from_args();
FromArgs ==
    /\ pc = "from_args"
    /\ steps' = Append(steps, "from_args")
    /\ LET ip == ParseIpv4(argv.ip)
       IN IF ip.ok
          THEN /\ args' = [interface |-> argv.interface, ip |-> ip.val]
               /\ pc' = "crate_sock"
               /\ UNCHANGED <<error, exit_code>>
          ELSE /\ Fail("from_args", ip.err)
               /\ UNCHANGED args
    /\ UNCHANGED <<argv, sock_fd, ifr, kernel, syscalls, log, get_result>>
    /\ UNCHANGED codec_vars

\* crate_sock continuing with an invalid descriptor when socket() fails
CrateSockIgnoreErr ==
    /\ pc = "crate_sock"
    /\ steps' = Append(steps, "crate_sock")
    /\ log' = Append(log, [msg |-> "Opening socket to kernel...",
                           interface |-> <<>>, ip |-> NoIp])
    /\ syscalls' = Append(syscalls, "socket")
    /\ \E opened \in BOOLEAN :
          IF opened
          THEN /\ sock_fd' = 3
               /\ pc' = "from_name"
               /\ UNCHANGED <<error, exit_code>>
          ELSE /\ error' = [step |-> "crate_sock", msg |-> "EMFILE"]
               /\ pc' = "from_name"
               /\ UNCHANGED <<sock_fd, exit_code>>
    /\ UNCHANGED <<argv, args, ifr, kernel, get_result>>
    /\ UNCHANGED codec_vars

\* info!("Opening socket to kernel..."); let sock_fd = crate_sock(Inet, Datagram, empty, None)?;
CrateSock ==
    /\ pc = "crate_sock"
    /\ steps' = Append(steps, "crate_sock")
    /\ log' = Append(log, [msg |-> "Opening socket to kernel...",
                           interface |-> <<>>, ip |-> NoIp])
    /\ syscalls' = Append(syscalls, "socket")
    /\ \E opened \in BOOLEAN :
          IF opened
          THEN /\ sock_fd' = 3
               /\ pc' = "from_name"
               /\ UNCHANGED <<error, exit_code>>
          ELSE /\ Fail("crate_sock", "EMFILE")
               /\ UNCHANGED sock_fd
    /\ UNCHANGED <<argv, args, ifr, kernel, get_result>>
    /\ UNCHANGED codec_vars

\* line 100 truncating an over-long name instead of returning the error
FromNameTruncating ==
    /\ pc = "from_name"
    /\ steps' = Append(steps, "from_name")
    /\ LET r == from_name(IF Len(args.interface) >= IFNAMSIZ
                          THEN SubSeq(args.interface, 1, IFNAMSIZ - 1)
                          ELSE args.interface)
       IN /\ ifr' = r.val
          /\ pc' = "set_ip"
          /\ UNCHANGED <<error, exit_code>>
    /\ UNCHANGED <<argv, args, sock_fd, kernel, syscalls, log, get_result>>
    /\ UNCHANGED codec_vars

\* let mut ifreq = ifreq::from_name(&args.interface)?;
FromName ==
    /\ pc = "from_name"
    /\ steps' = Append(steps, "from_name")
    /\ LET r == from_name(args.interface)
       IN IF r.ok
          THEN /\ ifr' = r.val
               /\ pc' = "set_ip"
               /\ UNCHANGED <<error, exit_code>>
          ELSE /\ Fail("from_name", r.err)
               /\ UNCHANGED ifr
    /\ UNCHANGED <<argv, args, sock_fd, kernel, syscalls, log, get_result>>
    /\ UNCHANGED codec_vars

\* let new_addr = IpAddr::from(args.ip); set_ip(&mut ifreq, &new_addr)?;
SetIp ==
    /\ pc = "set_ip"
    /\ steps' = Append(steps, "set_ip")
    /\ LET r == set_ip(ifr, V4(args.ip))
       IN IF r.ok
          THEN /\ ifr' = r.val
               /\ pc' = "set_interface_ip"
               /\ UNCHANGED <<error, exit_code>>
          ELSE /\ Fail("set_ip", r.err)
               /\ UNCHANGED ifr
    /\ UNCHANGED <<argv, args, sock_fd, kernel, syscalls, log, get_result>>
    /\ UNCHANGED codec_vars

\* line 103 going on to the confirmation whatever the ioctl returns
SetInterfaceIpIgnoreErr ==
    /\ pc = "set_interface_ip"
    /\ steps' = Append(steps, "set_interface_ip")
    /\ syscalls' = Append(syscalls, "SIOCSIFADDR")
    /\ LET r == set_interface_ip(kernel, ifr)
       IN /\ kernel' = [kernel EXCEPT !.ifaces = r.ifaces]
          /\ pc' = "report"
          /\ UNCHANGED <<error, exit_code>>
    /\ UNCHANGED <<argv, args, sock_fd, ifr, log, get_result>>
    /\ UNCHANGED codec_vars

\* unsafe { set_interface_ip(sock_fd, &mut ifreq)? };
SetInterfaceIp ==
    /\ pc = "set_interface_ip"
    /\ steps' = Append(steps, "set_interface_ip")
    /\ syscalls' = Append(syscalls, "SIOCSIFADDR")
    /\ LET r == set_interface_ip(kernel, ifr)
       IN /\ kernel' = [kernel EXCEPT !.ifaces = r.ifaces]
          /\ IF r.res.ok
             THEN /\ pc' = "report"
                  /\ UNCHANGED <<error, exit_code>>
             ELSE Fail("set_interface_ip", r.res.err)
    /\ UNCHANGED <<argv, args, sock_fd, ifr, log, get_result>>
    /\ UNCHANGED codec_vars

\* info!("Interface '{}' set to ip address '{}' succesfully!", ..); Ok(())
Report ==
    /\ pc = "report"
    /\ steps' = Append(steps, "report")
    /\ log' = Append(log, [msg |-> "Interface set to ip address succesfully!",
                           interface |-> args.interface, ip |-> V4(args.ip)])
    /\ exit_code' = 0
    /\ pc' = "exit"
    /\ UNCHANGED <<argv, args, sock_fd, ifr, kernel, syscalls, error, get_result>>
    /\ UNCHANGED codec_vars

Next == FromArgs \/ CrateSock \/ FromName \/ SetIp \/ SetInterfaceIp \/ Report

Spec == Init /\ [][Next]_vars

\* After the run: a get of some interface's address through the same code,
\* ifreq::from_name(name), get_interface_ip(fd, &mut ifr), get_ip(&ifr).
GetPath ==
    /\ pc = "exit"
    /\ get_result = NoGet
    /\ \E name \in Names :
          LET r == from_name(name)
              g == get_interface_ip(kernel, r.val)
          IN get_result' =
                [name |-> name,
                 res |-> IF ~r.ok THEN Err(NoIp, r.err)
                         ELSE IF ~g.ok THEN Err(NoIp, g.err)
                         ELSE get_ip(g.val)]
    /\ UNCHANGED <<pc, argv, args, sock_fd, ifr, kernel, syscalls, steps, log,
                   exit_code, error>>
    /\ UNCHANGED codec_vars

NextSetGet == Next \/ GetPath

SpecSetGet == Init /\ [][NextSetGet]_vars

----------------------------------------------------------------------------
(* Properties of the codec, checked under SpecCodec.                       *)

\* C1: round trip. For every IPv4 address, sockaddr_from_ip succeeds, and
\* ip_from_sockaddr of the record it returns succeeds with exactly that
\* address, also when octets are >= 128 and sit in sa_data as negative i8.
RoundTrip ==
    /\ (ip_addr.version = 4 /\ cphase \in {"encoded", "decoded"}) => enc.ok
    /\ (ip_addr.version = 4 /\ cphase = "decoded") =>
          /\ dec.ok
          /\ dec.val = ip_addr
          /\ \A i \in 0..3 : dec.val.parts[i] \in 0..255

RoundTripWitness ==
    /\ cphase = "decoded"
    /\ ip_addr = V4(Quad(255, 128, 255, 128))
    /\ sock_addr.sa_data[2] = -1
    /\ sock_addr.sa_data[3] = -128
    /\ dec = Ok(ip_addr)

\* C2: byte layout of encode. For the IPv4 address o0.o1.o2.o3 the record has
\* sa_family = AF_INET, the bytes o0,o1,o2,o3 at sa_data[2..5] in that order,
\* and zero at sa_data[0..1] and sa_data[6..13]; 10.0.0.1 gives [10,0,0,1].
ByteLayout ==
    (ip_addr.version = 4 /\ cphase \in {"encoded", "decoded"}) =>
        /\ enc.ok
        /\ enc.val.sa_family = AF_INET
        /\ DOMAIN enc.val.sa_data = 0..(SaDataLen - 1)
        /\ \A i \in 0..3 :
              /\ enc.val.sa_data[i + 2] \in -128..127
              /\ AsU8(enc.val.sa_data[i + 2]) = ip_addr.parts[i]
        /\ \A j \in OtherOffsets : enc.val.sa_data[j] = 0
        /\ (ip_addr = V4(Quad(10, 0, 0, 1))) =>
              enc.val.sa_data = [j \in 0..13 |->
                                   <<0, 0, 10, 0, 0, 1, 0, 0, 0, 0, 0, 0, 0, 0>>[j + 1]]

ByteLayoutWitness ==
    /\ cphase = "encoded"
    /\ ip_addr = V4(Quad(10, 0, 0, 1))
    /\ enc.ok
    /\ enc.val.sa_data[2] = 10
    /\ enc.val.sa_data[5] = 1

\* C3: IPv6 rejection. sockaddr_from_ip fails with the unsupported-family error
\* for every IPv6 address and never returns an AF_INET6 record; ip_from_sockaddr
\* fails with the same error for every AF_INET6 record, whatever its data.
IPv6Rejected ==
    /\ (ip_addr.version = 6 /\ cphase \in {"encoded", "decoded"}) =>
          (~enc.ok /\ enc.err = ErrIPv6)
    /\ enc.ok => enc.val.sa_family # AF_INET6
    /\ (cphase = "decoded" /\ sock_addr.sa_family = AF_INET6) =>
          (~dec.ok /\ dec.err = ErrIPv6)
    /\ (cphase = "decoded" /\ sock_addr2.sa_family = AF_INET6) =>
          (~dec2.ok /\ dec2.err = ErrIPv6)

IPv6RejectedWitness ==
    /\ cphase = "decoded"
    /\ sock_addr.sa_family = AF_INET6
    /\ sock_addr.sa_data[2] = -64
    /\ sock_addr2 # sock_addr
    /\ dec.err = ErrIPv6
    /\ dec2.err = ErrIPv6

\* C4: unknown family. A record whose sa_family is neither AF_INET nor AF_INET6
\* is rejected with "Received unknown sa_family", an error other than the IPv6
\* one; decoding succeeds exactly when sa_family is AF_INET.
UnknownFamily ==
    cphase = "decoded" =>
        /\ sock_addr.sa_family \notin {AF_INET, AF_INET6} =>
              (~dec.ok /\ dec.err = ErrUnknownFamily /\ dec.err # ErrIPv6)
        /\ dec.ok <=> sock_addr.sa_family = AF_INET
        /\ dec2.ok <=> sock_addr2.sa_family = AF_INET

UnknownFamilyWitness ==
    /\ cphase = "decoded"
    /\ sock_addr.sa_family = 0
    /\ sock_addr.sa_data[2] = 1
    /\ dec.err = ErrUnknownFamily

\* C10: decode reads sa_data[2..5] only. Two AF_INET records that agree on
\* sa_data[2..5] decode to the same address whatever sa_data[0..1] and
\* sa_data[6..13] hold; encode leaves every byte outside 2..5 as the zero fill.
DecodeReadsOnlyAddressBytes ==
    /\ ( /\ cphase = "decoded"
         /\ sock_addr.sa_family = AF_INET
         /\ sock_addr2.sa_family = AF_INET
         /\ \A j \in 2..5 : sock_addr.sa_data[j] = sock_addr2.sa_data[j] )
       => (dec.ok /\ dec2 = dec)
    /\ enc.ok => \A j \in OtherOffsets : enc.val.sa_data[j] = ZeroData[j]

DecodeReadsOnlyAddressBytesWitness ==
    /\ cphase = "decoded"
    /\ sock_addr.sa_family = AF_INET
    /\ sock_addr2.sa_data[6] = 127
    /\ sock_addr.sa_data[6] = 0
    /\ dec.ok
    /\ dec.val.parts[3] = 200
    /\ dec2 = dec

----------------------------------------------------------------------------
(* Properties of main, checked under Spec (C5 under SpecSetGet).           *)

Range(seq) == {seq[i] : i \in 1..Len(seq)}
IsPrefix(s, t) == Len(s) <= Len(t) /\ s = SubSeq(t, 1, Len(s))
Confirmed == \E i \in 1..Len(log) : log[i].msg = "Interface set to ip address succesfully!"

\* C5 as stated: set then get. After a run of main that succeeded for interface
\* n and address a, a get on a record built from the same name (SIOCGIFADDR,
\* then get_ip) returns exactly a, for every IPv4 address a.
SetThenGet ==
    (pc = "exit" /\ exit_code = 0 /\ get_result # NoGet
        /\ get_result.name = args.interface)
    => get_result.res = Ok(V4(args.ip))

\* C5 amended: after a run of main that succeeded for interface n and address
\* a, a get on a record built from the same name returns exactly a when a is
\* not 0.0.0.0; a successful set of 0.0.0.0 removes the interface's address and
\* the get fails with EADDRNOTAVAIL.
SetThenGetUnlessZero ==
    (pc = "exit" /\ exit_code = 0 /\ get_result # NoGet
        /\ get_result.name = args.interface)
    => IF args.ip = Quad(0, 0, 0, 0)
       THEN get_result.res = Err(NoIp, "EADDRNOTAVAIL")
       ELSE get_result.res = Ok(V4(args.ip))

SetThenGetWitness ==
    /\ exit_code = 0
    /\ args.interface = Eth0
    /\ args.ip = Quad(192, 168, 1, 10)
    /\ get_result = [name |-> Eth0, res |-> Ok(V4(Quad(192, 168, 1, 10)))]

NameTooLong == Len(argv.interface) >= IFNAMSIZ
IpMalformed == ~ParseIpv4(argv.ip).ok

\* C6 as stated: whenever the interface name is over the limit or the IP literal
\* is malformed, the run fails without any kernel operation (no socket(), no
\* control request).
ArgErrorsBeforeAnyKernelOp ==
    (pc = "exit" /\ (NameTooLong \/ IpMalformed)
        /\ error.step \in {"from_args", "from_name"}) =>
        (exit_code # 0 /\ syscalls = <<>> /\ sock_fd = -1)

\* C6 amended: a malformed IP literal ends the run in argument parsing, before
\* any kernel operation; an over-long interface name is found at record
\* construction, after socket() was called, and before any control request.
\* Either way the run fails and the interface table is unchanged.
ArgErrorsBeforeControlRequest ==
    /\ IpMalformed => syscalls = <<>>
    /\ (NameTooLong \/ IpMalformed) =>
          /\ "SIOCSIFADDR" \notin Range(syscalls)
          /\ kernel.ifaces = InitIfaces
          /\ exit_code # 0
    /\ (pc = "exit" /\ IpMalformed) => (exit_code = 1 /\ error.step = "from_args")
    /\ (pc = "exit" /\ NameTooLong /\ ~IpMalformed) =>
          /\ exit_code = 1
          /\ syscalls = <<"socket">>
          /\ error.step \in {"crate_sock", "from_name"}

ArgErrorsWitness ==
    /\ pc = "exit"
    /\ Len(argv.interface) = IFNAMSIZ
    /\ ~IpMalformed
    /\ sock_fd = 3
    /\ syscalls = <<"socket">>
    /\ error.step = "from_name"

\* C7: record construction fails for every name of 16 or more bytes and
\* succeeds for every shorter name, giving a record whose name field holds the
\* name (NUL padded) and whose address union is zero.
FromNameContract ==
    "from_name" \in Range(steps) =>
        IF Len(args.interface) >= 16
        THEN pc = "exit" /\ error.step = "from_name" /\ exit_code # 0 /\ ifr = NoIfreq
        ELSE /\ error.step # "from_name"
             /\ DOMAIN ifr.ifr_name = 0..15
             /\ \A j \in 0..15 :
                   ifr.ifr_name[j] = IF j < Len(args.interface)
                                     THEN args.interface[j + 1] ELSE 0
             /\ NameOf(ifr.ifr_name) = args.interface
             /\ pc = "set_ip" => ifr.ifr_addr = ZeroSockaddr

FromNameContractWitness ==
    /\ pc = "set_ip"
    /\ args.interface = Eth0
    /\ ifr.ifr_name[0] = 101
    /\ ifr.ifr_name[3] = 48
    /\ ifr.ifr_name[4] = 0
    /\ ifr.ifr_addr = ZeroSockaddr

\* every step of main succeeds for this command line in this environment
AllStepsSucceed ==
    /\ ParseIpv4(argv.ip).ok
    /\ sock_fd >= 0
    /\ from_name(argv.interface).ok
    /\ sockaddr_from_ip(V4(ParseIpv4(argv.ip).val)).ok
    /\ kernel.cap_net_admin
    /\ argv.interface \in DOMAIN InitIfaces
    /\ ParseIpv4(argv.ip).val[0] \notin 224..239

\* C8: exit status. A run exits 0 exactly when argument parsing, socket(),
\* record construction, encoding and the SIOCSIFADDR request all succeed; any
\* failure (a nonexistent interface, missing privilege or an address the kernel
\* refuses included) ends it with
\* status 1 and an error value; the confirmation is logged only on success.
ExitStatus ==
    /\ pc # "exit" => (exit_code = -1 /\ ~Confirmed /\ error = NoError)
    /\ pc = "exit" =>
          /\ exit_code \in {0, 1}
          /\ exit_code = 0 <=> AllStepsSucceed
          /\ exit_code = 0 <=> error = NoError
          /\ exit_code = 0 <=> Confirmed
          /\ error.step = "set_interface_ip" =>
                error.msg = IF ~kernel.cap_net_admin THEN "EPERM"
                            ELSE IF argv.interface \notin DOMAIN InitIfaces
                            THEN "ENODEV" ELSE "EINVAL"

ExitStatusWitness ==
    /\ pc = "exit"
    /\ argv.interface = DoesNotExist0
    /\ kernel.cap_net_admin
    /\ error = [step |-> "set_interface_ip", msg |-> "ENODEV"]
    /\ exit_code = 1
    /\ ~Confirmed

StepOrder == <<"from_args", "crate_sock", "from_name", "set_ip", "set_interface_ip", "report">>

\* C9: ordering and no retry. The steps run in the order socket(), record
\* construction, set_ip, SIOCSIFADDR; the first failing step ends the run and
\* nothing runs after it; SIOCSIFADDR is issued at most once and only after all
\* earlier steps succeeded; a run failing before it leaves the interface table
\* as it was.
OrderAndNoRetry ==
    /\ IsPrefix(steps, StepOrder)
    /\ IsPrefix(syscalls, <<"socket", "SIOCSIFADDR">>)
    /\ error # NoError =>
          /\ pc = "exit"
          /\ steps # <<>>
          /\ steps[Len(steps)] = error.step
    /\ "SIOCSIFADDR" \in Range(syscalls) =>
          /\ sock_fd >= 0
          /\ from_name(args.interface).ok
          /\ ifr = set_ip(from_name(args.interface).val, V4(args.ip)).val
    /\ "SIOCSIFADDR" \notin Range(syscalls) => kernel.ifaces = InitIfaces
    /\ error.step \in {"from_args", "crate_sock", "from_name", "set_ip"} =>
          "SIOCSIFADDR" \notin Range(syscalls)

OrderAndNoRetryWitness ==
    /\ pc = "exit"
    /\ error = [step |-> "set_interface_ip", msg |-> "EPERM"]
    /\ steps = SubSeq(StepOrder, 1, 5)
    /\ syscalls = <<"socket", "SIOCSIFADDR">>
    /\ kernel.ifaces = InitIfaces

====
